---- MODULE Spec2Model ----
(***************************************************************************)
(* Model of src/server/mcpCleanup.ts: discovery of MCP processes by        *)
(* command-line pattern and by port, de-duplication by pid, the            *)
(* SIGTERM / probe / SIGKILL / probe escalation of killProcess, the full   *)
(* sweep cleanupOrphanedMcpProcesses, the single-port freePort and the     *)
(* two registration calls.                                                 *)
(*                                                                         *)
(* The operating system is part of the state: a process table indexed by   *)
(* pid whose entries may exit, and whose free pids may be reused, between  *)
(* any two steps of the program.  An async function is cut at its awaits   *)
(* and at its system calls.                                                *)
(***************************************************************************)
EXTENDS Integers, Sequences, FiniteSets, TLC

\* ------------------------------------------------------------------ bounds
MaxPid == 2        \* pids of the process table are 1..MaxPid
MaxSpawns == 1     \* processes the OS starts (on a free pid) during a run
MaxCalls == 1      \* uses of the async exported functions during a run: a
                   \* sweep, or a series of calls of freePort
MaxFreeCalls == 2  \* calls of freePort in such a series
MaxSweeps == 2     \* calls of the sweep when the sweep is called repeatedly

Pids == 1..MaxPid

\* --------------------------------------------------------------- text
\* Command output is text: a sequence of one-character strings.  A line is
\* the sequence of its fields.
DigitChars == <<"0", "1", "2", "3", "4", "5", "6", "7", "8", "9">>

IsDigit(c) == \E d \in 1..Len(DigitChars) : DigitChars[d] = c

DigitValue(c) == (CHOOSE d \in 1..Len(DigitChars) : DigitChars[d] = c) - 1

RECURSIVE Digits(_)
\* `${n}` : the decimal text of a non-negative integer
Digits(n) ==
    IF n < 10 THEN <<DigitChars[n + 1]>>
    ELSE Digits(n \div 10) \o <<DigitChars[(n % 10) + 1]>>

\* s.trim() is '' : the line is blank
IsBlank(s) == \A i \in 1..Len(s) : s[i] = " "

RECURSIVE TrimLeft(_)
TrimLeft(s) == IF s # <<>> /\ s[1] = " " THEN TrimLeft(Tail(s)) ELSE s

\* isNaN(parseInt(s, 10)) : after leading blanks there is no digit
IsNaN(s) == LET t == TrimLeft(s) IN t = <<>> \/ ~IsDigit(t[1])

RECURSIVE ParseDigits(_, _)
ParseDigits(s, acc) ==
    IF s = <<>> \/ ~IsDigit(s[1]) THEN acc
    ELSE ParseDigits(Tail(s), acc * 10 + DigitValue(s[1]))

\* parseInt(s, 10) of a text that is not NaN: the leading run of digits
ParseInt(s) == ParseDigits(TrimLeft(s), 0)

\* hay.includes(needle)
Includes(hay, needle) ==
    \E i \in 0..(Len(hay) - Len(needle)) :
        SubSeq(hay, i + 1, i + Len(needle)) = needle

\* ----------------------------------------------------- the process table
NoProc ==
    [cmd |-> <<>>, socks |-> {}, owned |-> FALSE, child |-> FALSE,
     live |-> FALSE]

Listen(port) == [lport |-> port, rport |-> 0, state |-> "LISTENING"]

\* The MCP processes a run starts with: a command line (its fragments),
\* the TCP sockets held, whether the host's user may signal the process,
\* and whether it is a child the host started and still holds (the proxy of
\* the active session) or a left-over of an earlier run.
ProcKinds ==
    { [cmd |-> <<"npx", "mcp-remote", "mcp-server">>, socks |-> {},
       owned |-> TRUE, child |-> TRUE, live |-> TRUE],
      [cmd |-> <<"robloxstudio-mcp">>, socks |-> {Listen(3002)},
       owned |-> TRUE, child |-> FALSE, live |-> TRUE],
      [cmd |-> <<"python", "http.server">>, socks |-> {Listen(3002)},
       owned |-> FALSE, child |-> FALSE, live |-> TRUE] }

\* The unrelated processes the OS starts during a run, on a pid that is free
SpawnKinds ==
    { [cmd |-> <<"bash">>, socks |-> {}, owned |-> TRUE, child |-> FALSE,
       live |-> TRUE],
      [cmd |-> <<"sshd">>, socks |-> {}, owned |-> FALSE, child |-> FALSE,
       live |-> TRUE] }

\* the command line contains the pattern (pgrep -f / commandline like '%p%')
CmdMatches(cmd, pattern) == \E i \in 1..Len(cmd) : cmd[i] = pattern

RECURSIVE SortedPids(_)
\* the pids of a set in ascending order, the order the tools list them in
SortedPids(S) ==
    IF S = {} THEN <<>>
    ELSE LET m == CHOOSE x \in S : \A y \in S : x <= y
         IN <<m>> \o SortedPids(S \ {m})

\* ------------------------------------------------------------------ state
VARIABLES
    platform,              \* process.platform: "win32" or a POSIX platform
    proc,                  \* the OS process table: pid -> process or NoProc
    spawns,                \* processes the OS has started so far
    calls,                 \* uses of the async exported functions so far
    MCP_PROCESS_PATTERNS,  \* the watched patterns, an array
    MCP_PORTS,             \* the watched ports, an array
    spc,                   \* cleanupOrphanedMcpProcesses: where the call is
    cursor,                \* ... index of the pattern / port / handle at hand
    processesByName,       \* ... result of findMcpProcesses
    processesByPort,       \* ... result of findProcessesOnMcpPorts
    allProcesses,          \* ... the Map, as its entries in insertion order
    killed,                \* ... the counter
    sret,                  \* ... the value returned (when spc = "done")
    invoked,               \* ... pids killProcess was called with, in order
    outcomes,              \* ... the KillResult of each of those calls
    prevFound,             \* ... pids found by the calls before this one
    startPatterns,         \* ... MCP_PROCESS_PATTERNS as it was at the call
    startPorts,            \* ... MCP_PORTS as it was at the call
    namesProbed,           \* ... the pattern commands run, in order
    portsProbed,           \* ... the port commands run, in order
    lastFailed,            \* ... whether the latest of them was rejected
    fpc,                   \* freePort: where the call is
    fport,                 \* ... its argument
    fret,                  \* ... the value returned (when fpc = "done")
    fcalls,                \* ... calls of it in the series so far
    fexec,                 \* ... how its lookup command ended
    flisteners,            \* ... pids that listened on the port at the lookup
    finvoked,              \* ... pids it called killProcess with
    fprev,                 \* ... what the call before this one did
    kpc,                   \* killProcess, per caller: where the call is
    kpid,                  \* ... its argument
    klog,                  \* ... the system calls and waits it made so far
    kres                   \* ... the KillResult of the caller's last call

osVars == <<platform, proc, spawns>>
vars == <<platform, proc, spawns, calls, MCP_PROCESS_PATTERNS, MCP_PORTS, spc,
          cursor, processesByName, processesByPort, allProcesses, killed,
          sret, invoked, outcomes, prevFound, startPatterns, startPorts,
          namesProbed,
          portsProbed, lastFailed, fpc, fport, fret, fcalls, fexec,
          flisteners, finvoked, fprev, kpc, kpid, klog, kres>>
regVars == <<MCP_PROCESS_PATTERNS, MCP_PORTS>>
sweepVars == <<spc, cursor, processesByName, processesByPort, allProcesses,
               killed, sret, invoked, outcomes, prevFound, startPatterns,
               startPorts,
               namesProbed, portsProbed, lastFailed>>
probeVars == <<prevFound, startPatterns, startPorts, namesProbed, portsProbed,
               lastFailed>>
freeVars == <<fpc, fport, fret, fcalls, fexec, flisteners, finvoked, fprev>>
killVars == <<kpc, kpid, klog, kres>>

Callers == {"sweep", "freePort"}

LivePids == {p \in Pids : proc[p].live}

\* --------------------------------------------------- the discovery tools
\* stdout after .trim().split('\n'): one line per pid; an empty output
\* splits into one empty line.
PidLines(S) ==
    IF S = {} THEN << << <<>> >> >>
    ELSE LET ps == SortedPids(S) IN [i \in 1..Len(ps) |-> <<Digits(ps[i])>>]

\* pgrep -f "<pattern>" 2>/dev/null || true
PgrepStdout(pattern) ==
    PidLines({p \in LivePids : CmdMatches(proc[p].cmd, pattern)})

\* lsof -ti:<port> 2>/dev/null || true : every process holding an internet
\* socket with that port at either end
LsofStdout(port) ==
    PidLines({p \in LivePids :
                \E s \in proc[p].socks : s.lport = port \/ s.rport = port})

CsvHeader == << <<"N", "o", "d", "e">>, <<"N", "a", "m", "e">>,
                <<"P", "r", "o", "c", "e", "s", "s", "I", "d">> >>

\* wmic process where "commandline like '%<pattern>%'" get processid,name
\* /format:csv : a header line, then Node,Name,ProcessId per process; no
\* output when nothing matches
WmicStdout(pattern) ==
    LET S == {p \in LivePids : CmdMatches(proc[p].cmd, pattern)}
        ps == SortedPids(S)
    IN IF S = {} THEN << << <<>> >> >>
       ELSE <<CsvHeader>> \o
            [i \in 1..Len(ps) |->
                << <<"P", "C">>, <<"n", "o", "d", "e">>, Digits(ps[i]) >>]

AddrText(port) == <<"0", ".", "0", ".", "0", ".", "0", ":">> \o Digits(port)

\* one line of netstat -ano, split at white space:
\* Proto  Local Address  Foreign Address  State  PID
NetstatLine(p, s) ==
    << <<"T", "C", "P">>, AddrText(s.lport), AddrText(s.rport),
       IF s.state = "LISTENING" THEN <<"L">> ELSE <<"E">>, Digits(p) >>

\* `:${port}`
PortNeedle(port) == <<":">> \o Digits(port)

RECURSIVE SocketLines(_)
\* the netstat lines of a set of <<pid, socket>> pairs, by pid then port
SocketLines(S) ==
    IF S = {} THEN <<>>
    ELSE LET m == CHOOSE x \in S : \A y \in S :
                      \/ x[1] < y[1]
                      \/ x[1] = y[1] /\ x[2].lport < y[2].lport
                      \/ x[1] = y[1] /\ x[2].lport = y[2].lport
                                     /\ x[2].rport <= y[2].rport
         IN <<NetstatLine(m[1], m[2])>> \o SocketLines(S \ {m})

\* netstat -ano | findstr ":<port>" 2>nul : the lines that contain the
\* needle anywhere
NetstatMatches(port) ==
    {x \in {<<p, s>> : p \in LivePids, s \in UNION {proc[q].socks : q \in LivePids}} :
        /\ x[2] \in proc[x[1]].socks
        /\ \E f \in 1..5 : Includes(NetstatLine(x[1], x[2])[f], PortNeedle(port))}

NetstatStdout(port) == SocketLines(NetstatMatches(port))

\* findstr exits 1 when no line matches, and exec then rejects
FindstrFails(port) == NetstatMatches(port) = {}

\* ------------------------------------------------------ parsing the output
\* l.trim() is '' for a line
LineBlank(line) == \A f \in 1..Len(line) : IsBlank(line[f])

\* ProcessInfo { pid, name, port? } ; port 0 stands for an absent port
PatternHandle(pid, pattern) == [pid |-> pid, name |-> pattern, port |-> 0]

PortHandle(pid, port) ==
    [pid |-> pid, name |-> "port:" \o ToString(port), port |-> port]

\* the pids of an array of ProcessInfo
PidsOf(handles) == {handles[i].pid : i \in 1..Len(handles)}

\* findMcpProcesses, POSIX branch: non-blank lines, parseInt, skip NaN
PgrepHandles(lines, pattern) ==
    LET Keep(l) == ~LineBlank(l) /\ ~IsNaN(l[1])
        kept == SelectSeq(lines, Keep)
    IN [i \in 1..Len(kept) |-> PatternHandle(ParseInt(kept[i][1]), pattern)]

\* findMcpProcesses, win32 branch: skip blank lines and the header, take
\* the third comma-separated field
WmicHandles(lines, pattern) ==
    LET Keep(l) == /\ ~LineBlank(l)
                   /\ l # CsvHeader
                   /\ Len(l) >= 3
                   /\ ~IsNaN(l[3])
        kept == SelectSeq(lines, Keep)
    IN [i \in 1..Len(kept) |-> PatternHandle(ParseInt(kept[i][3]), pattern)]

\* findProcessesOnMcpPorts, POSIX branch
LsofHandles(lines, port) ==
    LET Keep(l) == ~LineBlank(l) /\ ~IsNaN(l[1])
        kept == SelectSeq(lines, Keep)
    IN [i \in 1..Len(kept) |-> PortHandle(ParseInt(kept[i][1]), port)]

\* findProcessesOnMcpPorts, win32 branch: at least five fields, the local
\* address contains `:${port}`, the fifth field is a non-zero pid
NetstatHandles(lines, port) ==
    LET Keep(l) == /\ Len(l) >= 5
                   /\ Includes(l[2], PortNeedle(port))
                   /\ ~IsNaN(l[5])
                   /\ ParseInt(l[5]) # 0
        kept == SelectSeq(lines, Keep)
    IN [i \in 1..Len(kept) |-> PortHandle(ParseInt(kept[i][5]), port)]

\* one iteration of the pattern loop of findMcpProcesses; a failed exec is
\* caught by the inner catch and contributes nothing
FindByPatternOn(plat, pattern, failed) ==
    IF failed THEN <<>>
    ELSE IF plat = "win32" THEN WmicHandles(WmicStdout(pattern), pattern)
    ELSE PgrepHandles(PgrepStdout(pattern), pattern)

FindByPattern(pattern, failed) == FindByPatternOn(platform, pattern, failed)

\* one iteration of the port loop of findProcessesOnMcpPorts
FindByPortOn(plat, port, failed) ==
    IF plat = "win32"
    THEN IF failed \/ FindstrFails(port) THEN <<>>
         ELSE NetstatHandles(NetstatStdout(port), port)
    ELSE IF failed THEN <<>>
         ELSE LsofHandles(LsofStdout(port), port)

FindByPort(port, failed) == FindByPortOn(platform, port, failed)

RECURSIVE DeduplicateByName(_, _)
\* mutant: the Map is keyed by the handle's label
DeduplicateByName(raw, map) ==
    IF raw = <<>> THEN map
    ELSE LET h == Head(raw)
         IN IF \E k \in 1..Len(map) : map[k].name = h.name
            THEN DeduplicateByName(Tail(raw), map)
            ELSE DeduplicateByName(Tail(raw), Append(map, h))

RECURSIVE DeduplicateLastWins(_, _)
\* mutant: Map.set is called for every handle, so the entry keeps its place
\* and takes the value of the last handle of its pid
DeduplicateLastWins(raw, map) ==
    IF raw = <<>> THEN map
    ELSE LET h == Head(raw)
         IN IF \E k \in 1..Len(map) : map[k].pid = h.pid
            THEN DeduplicateLastWins(Tail(raw),
                     [k \in 1..Len(map) |->
                          IF map[k].pid = h.pid THEN h ELSE map[k]])
            ELSE DeduplicateLastWins(Tail(raw), Append(map, h))

RECURSIVE Deduplicate(_, _)
\* the Map built from [...processesByName, ...processesByPort]: an entry is
\* set only when the Map does not have the pid yet
Deduplicate(raw, map) ==
    IF raw = <<>> THEN map
    ELSE LET h == Head(raw)
         IN IF \E k \in 1..Len(map) : map[k].pid = h.pid
            THEN Deduplicate(Tail(raw), map)
            ELSE Deduplicate(Tail(raw), Append(map, h))

\* ------------------------------------------------------------ killProcess
\* What process.kill(pid, signal) does: it throws ESRCH when there is no
\* such process and EPERM when the process belongs to someone else; on
\* win32 the call can also fail with another code.
KillOutcomes(pid) ==
    IF ~proc[pid].live THEN {"ESRCH"}
    ELSE IF ~proc[pid].owned THEN {"EPERM"}
    ELSE IF platform = "win32" THEN {"ok", "EOTHER"}
    ELSE {"ok"}

Sys(op, pid, res) == [op |-> op, pid |-> pid, res |-> res, ms |-> 0]
Wait(pid, ms) == [op |-> "wait", pid |-> pid, res |-> "ok", ms |-> ms]

Returned(success, reason) ==
    [rejected |-> FALSE, success |-> success, reason |-> reason]
Rejected == [rejected |-> TRUE, success |-> FALSE, reason |-> "none"]
NoResult == [rejected |-> FALSE, success |-> FALSE, reason |-> "none"]

\* mutant: ESRCH is not told apart from other errors
OuterCatchNoEsrch(code) ==
    IF code = "EPERM" THEN Returned(FALSE, "permission_denied")
    ELSE Returned(FALSE, "error")

\* mutant: EPERM is not told apart from other errors
OuterCatchNoEperm(code) ==
    IF code = "ESRCH" THEN Returned(TRUE, "already_dead")
    ELSE Returned(FALSE, "error")

\* mutant: an error that is neither ESRCH nor EPERM is thrown again
OuterCatchRethrow(code) ==
    IF code = "ESRCH" THEN Returned(TRUE, "already_dead")
    ELSE IF code = "EPERM" THEN Returned(FALSE, "permission_denied")
    ELSE Rejected

\* the outer catch (err): the graceful signal threw
OuterCatch(code) ==
    IF code = "ESRCH" THEN Returned(TRUE, "already_dead")
    ELSE IF code = "EPERM" THEN Returned(FALSE, "permission_denied")
    ELSE Returned(FALSE, "error")

\* mutant: a probe that throws counts as a failure
InnerCatchFails(code) == Returned(FALSE, "error")

\* the catch around the first probe and the forced signal
InnerCatch(code) == Returned(TRUE, "killed")

\* mutant: the second probe throwing counts as a failure
VerifyCatchFails(code) == Returned(FALSE, "error")

\* the catch around the second probe
VerifyCatch(code) == Returned(TRUE, "killed")

\* mutant: the result of the second probe is ignored
StillAliveReportsKilled == Returned(TRUE, "killed")

\* the second probe did not throw
StillAlive == Returned(FALSE, "error")

\* entering killProcess(pid) for caller t
CallKill(t, pid) ==
    /\ kpc' = [kpc EXCEPT ![t] = "call"]
    /\ kpid' = [kpid EXCEPT ![t] = pid]
    /\ UNCHANGED <<klog, kres>>

\* mutant: an already dead process is not counted
CountedOnlyKilled(res, n) ==
    IF res.success /\ res.reason = "killed" THEN n + 1 ELSE n

\* if (result.success) killed++
Counted(res, n) == IF res.success THEN n + 1 ELSE n

\* mutant: the loop is left at the first entry that could not be killed
SweepResumeAbortOnFailure(res, log) ==
    /\ klog' = [klog EXCEPT !["sweep"] = log]
    /\ kres' = [kres EXCEPT !["sweep"] = res]
    /\ UNCHANGED <<freeVars, processesByName, processesByPort, allProcesses,
                   probeVars>>
    /\ IF res.rejected
       THEN /\ spc' = "thrown"
            /\ kpc' = [kpc EXCEPT !["sweep"] = "idle"]
            /\ UNCHANGED <<cursor, killed, sret, invoked, outcomes, kpid>>
       ELSE /\ killed' = Counted(res, killed)
            /\ outcomes' = Append(outcomes, res)
            /\ IF res.success /\ cursor < Len(allProcesses)
               THEN /\ cursor' = cursor + 1
                    /\ kpc' = [kpc EXCEPT !["sweep"] = "call"]
                    /\ kpid' = [kpid EXCEPT !["sweep"] =
                                     allProcesses[cursor + 1].pid]
                    /\ invoked' = Append(invoked,
                                     allProcesses[cursor + 1].pid)
                    /\ UNCHANGED <<spc, sret>>
               ELSE /\ spc' = "done"
                    /\ sret' = Counted(res, killed)
                    /\ kpc' = [kpc EXCEPT !["sweep"] = "idle"]
                    /\ UNCHANGED <<cursor, kpid, invoked>>

\* cleanupOrphanedMcpProcesses after `await killProcess(proc.pid)`: count,
\* then either enter killProcess for the next entry or return.  There is
\* no try/catch in the loop: a rejection leaves the function.
SweepResume(res, log) ==
    /\ klog' = [klog EXCEPT !["sweep"] = log]
    /\ kres' = [kres EXCEPT !["sweep"] = res]
    /\ UNCHANGED <<freeVars, processesByName, processesByPort, allProcesses,
                   probeVars>>
    /\ IF res.rejected
       THEN /\ spc' = "thrown"
            /\ kpc' = [kpc EXCEPT !["sweep"] = "idle"]
            /\ UNCHANGED <<cursor, killed, sret, invoked, outcomes, kpid>>
       ELSE /\ killed' = Counted(res, killed)
            /\ outcomes' = Append(outcomes, res)
            /\ IF cursor < Len(allProcesses)
               THEN /\ cursor' = cursor + 1
                    /\ kpc' = [kpc EXCEPT !["sweep"] = "call"]
                    /\ kpid' = [kpid EXCEPT !["sweep"] =
                                     allProcesses[cursor + 1].pid]
                    /\ invoked' = Append(invoked,
                                     allProcesses[cursor + 1].pid)
                    /\ UNCHANGED <<spc, sret>>
               ELSE /\ spc' = "done"
                    /\ sret' = Counted(res, killed)
                    /\ kpc' = [kpc EXCEPT !["sweep"] = "idle"]
                    /\ UNCHANGED <<cursor, kpid, invoked>>

\* the catch of freePort: return false
FreeCatch == [pc |-> "done", ret |-> FALSE]

\* freePort after `await killProcess(pid)`: return true, whatever the
\* KillResult is; a rejection is caught by the function's catch
FreeResume(res, log) ==
    /\ klog' = [klog EXCEPT !["freePort"] = log]
    /\ kres' = [kres EXCEPT !["freePort"] = res]
    /\ kpc' = [kpc EXCEPT !["freePort"] = "idle"]
    /\ fpc' = (IF res.rejected THEN FreeCatch.pc ELSE "done")
    /\ fret' = (IF res.rejected THEN FreeCatch.ret ELSE TRUE)
    /\ UNCHANGED <<fport, fcalls, fexec, flisteners, finvoked, fprev, kpid,
                   sweepVars>>

Return(t, res, log) ==
    IF t = "sweep" THEN SweepResume(res, log) ELSE FreeResume(res, log)

Continue(t, pc, log) ==
    /\ kpc' = [kpc EXCEPT ![t] = pc]
    /\ klog' = [klog EXCEPT ![t] = log]
    /\ kres' = [kres EXCEPT ![t] = NoResult]
    /\ UNCHANGED <<kpid, sweepVars, freeVars>>

\* process.kill(pid, 'SIGTERM'), then the 500 ms timer is started
KillTerm(t) ==
    /\ kpc[t] = "call"
    /\ \E r \in KillOutcomes(kpid[t]) :
          LET log == <<Sys("SIGTERM", kpid[t], r)>>
          IN IF r = "ok" THEN Continue(t, "wait500", log)
             ELSE Return(t, OuterCatch(r), log)
    /\ UNCHANGED <<osVars, regVars, calls>>

\* mutant: a process found alive is given a second 500 ms before the
\* forced signal
KillProbeWaitsAgain(t) ==
    /\ kpc[t] = "wait500"
    /\ \E r \in KillOutcomes(kpid[t]) :
          LET log == klog[t] \o <<Wait(kpid[t], 500), Sys("probe", kpid[t], r)>>
          IN IF r = "ok"
             THEN Continue(t, IF Len(klog[t]) < 3 THEN "wait500" ELSE "sigkill",
                           log)
             ELSE Return(t, InnerCatch(r), log)
    /\ UNCHANGED <<osVars, regVars, calls>>

\* the 500 ms timer fires: process.kill(pid, 0)
KillProbe(t) ==
    /\ kpc[t] = "wait500"
    /\ \E r \in KillOutcomes(kpid[t]) :
          LET log == klog[t] \o <<Wait(kpid[t], 500), Sys("probe", kpid[t], r)>>
          IN IF r = "ok" THEN Continue(t, "sigkill", log)
             ELSE Return(t, InnerCatch(r), log)
    /\ UNCHANGED <<osVars, regVars, calls>>

\* process.kill(pid, 'SIGKILL'), then the 200 ms timer is started
KillForce(t) ==
    /\ kpc[t] = "sigkill"
    /\ \E r \in KillOutcomes(kpid[t]) :
          LET log == Append(klog[t], Sys("SIGKILL", kpid[t], r))
          IN IF r = "ok" THEN Continue(t, "wait200", log)
             ELSE Return(t, InnerCatch(r), log)
    /\ UNCHANGED <<osVars, regVars, calls>>

\* mutant: the second probe follows the forced signal at once
KillVerifyNoWait(t) ==
    /\ kpc[t] = "wait200"
    /\ \E r \in KillOutcomes(kpid[t]) :
          LET log == Append(klog[t], Sys("probe", kpid[t], r))
          IN IF r = "ok" THEN Return(t, StillAlive, log)
             ELSE Return(t, VerifyCatch(r), log)
    /\ UNCHANGED <<osVars, regVars, calls>>

\* the 200 ms timer fires: process.kill(pid, 0) again
KillVerify(t) ==
    /\ kpc[t] = "wait200"
    /\ \E r \in KillOutcomes(kpid[t]) :
          LET log == klog[t] \o <<Wait(kpid[t], 200), Sys("probe", kpid[t], r)>>
          IN IF r = "ok" THEN Return(t, StillAlive, log)
             ELSE Return(t, VerifyCatch(r), log)
    /\ UNCHANGED <<osVars, regVars, calls>>

\* ------------------------------------------- cleanupOrphanedMcpProcesses
\* mutant: the handles of the call before are kept in processesByName
SweepBeginRetains ==
    /\ spc \in {"idle", "done", "thrown"}
    /\ spc' = "byName"
    /\ cursor' = 1
    /\ processesByName' = processesByName
    /\ processesByPort' = <<>>
    /\ allProcesses' = <<>>
    /\ killed' = 0
    /\ sret' = 0
    /\ invoked' = <<>>
    /\ outcomes' = <<>>
    /\ startPatterns' = MCP_PROCESS_PATTERNS
    /\ startPorts' = MCP_PORTS
    /\ namesProbed' = <<>>
    /\ portsProbed' = <<>>
    /\ lastFailed' = FALSE
    /\ prevFound' = prevFound \cup PidsOf(processesByName \o processesByPort)
    /\ calls' = calls + 1
    /\ UNCHANGED <<osVars, regVars, freeVars, killVars>>

\* the call: fresh locals, and findMcpProcesses starts with the first
\* pattern
SweepBegin ==
    /\ spc \in {"idle", "done", "thrown"}
    /\ spc' = "byName"
    /\ cursor' = 1
    /\ processesByName' = <<>>
    /\ processesByPort' = <<>>
    /\ allProcesses' = <<>>
    /\ killed' = 0
    /\ sret' = 0
    /\ invoked' = <<>>
    /\ outcomes' = <<>>
    /\ startPatterns' = MCP_PROCESS_PATTERNS
    /\ startPorts' = MCP_PORTS
    /\ namesProbed' = <<>>
    /\ portsProbed' = <<>>
    /\ lastFailed' = FALSE
    /\ prevFound' = prevFound \cup PidsOf(processesByName \o processesByPort)
    /\ calls' = calls + 1
    /\ UNCHANGED <<osVars, regVars, freeVars, killVars>>

SweepStart == calls < MaxCalls /\ SweepBegin

\* what the command for pattern number cursor did: the pattern and the
\* handles pushed
NameProbe(failed) ==
    [value |-> MCP_PROCESS_PATTERNS[cursor],
     found |-> FindByPattern(MCP_PROCESS_PATTERNS[cursor], failed)]

\* what the command for port number cursor did
PortProbe(failed) ==
    [value |-> MCP_PORTS[cursor],
     found |-> FindByPort(MCP_PORTS[cursor], failed)]

\* exec rejects when the command cannot be run and, on win32, when findstr
\* matches no line
PortExecRejects(failed) ==
    failed \/ (platform = "win32" /\ FindstrFails(MCP_PORTS[cursor]))

\* mutant: a rejected command ends the loop over the patterns
SweepFindByNameOuterCatch ==
    /\ spc = "byName"
    /\ \E failed \in BOOLEAN :
          /\ processesByName' = processesByName \o
                 FindByPattern(MCP_PROCESS_PATTERNS[cursor], failed)
          /\ namesProbed' = Append(namesProbed, NameProbe(failed))
          /\ lastFailed' = failed
    /\ IF cursor < Len(MCP_PROCESS_PATTERNS) /\ ~lastFailed'
       THEN cursor' = cursor + 1 /\ spc' = spc
       ELSE cursor' = 1 /\ spc' = "byPort"
    /\ UNCHANGED <<osVars, regVars, calls, freeVars, killVars, processesByPort,
                   allProcesses, killed, sret, invoked, outcomes,
                   prevFound, startPatterns, startPorts, portsProbed>>

\* the command for pattern number cursor completes; the for-of loop then
\* looks at the array as it is now
SweepFindByName ==
    /\ spc = "byName"
    /\ \E failed \in BOOLEAN :
          /\ processesByName' = processesByName \o
                 FindByPattern(MCP_PROCESS_PATTERNS[cursor], failed)
          /\ namesProbed' = Append(namesProbed, NameProbe(failed))
          /\ lastFailed' = failed
    /\ IF cursor < Len(MCP_PROCESS_PATTERNS)
       THEN cursor' = cursor + 1 /\ spc' = spc
       ELSE cursor' = 1 /\ spc' = "byPort"
    /\ UNCHANGED <<osVars, regVars, calls, freeVars, killVars, processesByPort,
                   allProcesses, killed, sret, invoked, outcomes,
                   prevFound, startPatterns, startPorts, portsProbed>>

\* processesByPort once the command for port number cursor has completed
ByPortNow(failed) ==
    processesByPort \o FindByPort(MCP_PORTS[cursor], failed)

\* mutant: the loop runs over the raw handles
MapNowNoDedup(failed) == processesByName \o ByPortNow(failed)

\* the Map built from both results
MapNow(failed) == Deduplicate(processesByName \o ByPortNow(failed), <<>>)

\* the command for port number cursor completes and the for-of loop finds
\* another port in the array
SweepFindByPort ==
    /\ spc = "byPort"
    /\ cursor < Len(MCP_PORTS)
    /\ \E failed \in BOOLEAN :
          /\ processesByPort' = ByPortNow(failed)
          /\ portsProbed' = Append(portsProbed, PortProbe(failed))
          /\ lastFailed' = PortExecRejects(failed)
    /\ cursor' = cursor + 1
    /\ UNCHANGED <<osVars, regVars, calls, freeVars, killVars, spc,
                   processesByName, allProcesses, killed, sret, invoked,
                   outcomes, prevFound, startPatterns, startPorts, namesProbed>>

\* the command for the last port completes, the Map is built and is empty:
\* return 0
SweepNothingFound ==
    /\ spc = "byPort"
    /\ cursor >= Len(MCP_PORTS)
    /\ \E failed \in BOOLEAN :
          /\ Len(MapNow(failed)) = 0
          /\ processesByPort' = ByPortNow(failed)
          /\ portsProbed' = Append(portsProbed, PortProbe(failed))
          /\ lastFailed' = PortExecRejects(failed)
          /\ allProcesses' = MapNow(failed)
    /\ spc' = "done"
    /\ sret' = 0
    /\ cursor' = 1
    /\ UNCHANGED <<osVars, regVars, calls, freeVars, killVars, processesByName,
                   killed, invoked, outcomes, prevFound, startPatterns, startPorts,
                   namesProbed>>

\* mutant: killProcess is called for every entry of the Map at once
SweepDeduplicateAllAtOnce ==
    /\ spc = "byPort"
    /\ cursor >= Len(MCP_PORTS)
    /\ \E failed \in BOOLEAN :
          /\ Len(MapNow(failed)) > 0
          /\ processesByPort' = ByPortNow(failed)
          /\ portsProbed' = Append(portsProbed, PortProbe(failed))
          /\ lastFailed' = PortExecRejects(failed)
          /\ allProcesses' = MapNow(failed)
          /\ invoked' = [k \in 1..Len(MapNow(failed)) |->
                             MapNow(failed)[k].pid]
          /\ CallKill("sweep", MapNow(failed)[1].pid)
    /\ spc' = "kill"
    /\ cursor' = 1
    /\ UNCHANGED <<osVars, regVars, calls, freeVars, processesByName, killed,
                   sret, outcomes, prevFound, startPatterns, startPorts, namesProbed>>

\* the command for the last port completes, the Map is built and the loop
\* over its values enters killProcess for the first entry
SweepDeduplicate ==
    /\ spc = "byPort"
    /\ cursor >= Len(MCP_PORTS)
    /\ \E failed \in BOOLEAN :
          /\ Len(MapNow(failed)) > 0
          /\ processesByPort' = ByPortNow(failed)
          /\ portsProbed' = Append(portsProbed, PortProbe(failed))
          /\ lastFailed' = PortExecRejects(failed)
          /\ allProcesses' = MapNow(failed)
          /\ invoked' = <<MapNow(failed)[1].pid>>
          /\ CallKill("sweep", MapNow(failed)[1].pid)
    /\ spc' = "kill"
    /\ cursor' = 1
    /\ UNCHANGED <<osVars, regVars, calls, freeVars, processesByName, killed,
                   sret, outcomes, prevFound, startPatterns, startPorts, namesProbed>>

\* ----------------------------------------------------------------- freePort
FreePortArgs == {3002, 8080}

\* what is remembered of a call of freePort once the next one starts
NoCall ==
    [port |-> 0, exec |-> "pending", listeners |-> {}, invoked |-> <<>>,
     ret |-> FALSE, res |-> NoResult]

ThisCall ==
    [port |-> fport, exec |-> fexec, listeners |-> flisteners,
     invoked |-> finvoked, ret |-> fret, res |-> kres["freePort"]]

\* the processes that hold a listening socket on the port
Listeners(port) ==
    {p \in LivePids :
        \E s \in proc[p].socks : s.lport = port /\ s.state = "LISTENING"}

\* the call of freePort(port): the lookup command is started
FreeBegin(port) ==
    /\ fpc \in {"idle", "done"}
    /\ fpc' = "lookup"
    /\ fport' = port
    /\ fcalls < MaxFreeCalls
    /\ fcalls' = fcalls + 1
    /\ fprev' = (IF fpc = "done" THEN ThisCall ELSE fprev)
    /\ fexec' = "pending"
    /\ flisteners' = {}
    /\ finvoked' = <<>>
    /\ UNCHANGED <<fret, osVars, regVars, sweepVars, killVars>>

FreeStart(port) ==
    /\ FreeBegin(port)
    /\ IF fcalls = 0 THEN calls < MaxCalls /\ calls' = calls + 1
       ELSE UNCHANGED calls

\* the pids the lookup of freePort yields, in order; killProcess is called
\* with the first
FreeTargetsOn(plat, port) ==
    IF plat = "win32" THEN NetstatHandles(NetstatStdout(port), port)
    ELSE LET first == Head(LsofStdout(port))
         IN IF first[1] # <<>> /\ ~IsNaN(first[1])
            THEN <<PortHandle(ParseInt(first[1]), port)>>
            ELSE <<>>

FreeTargets(port) == FreeTargetsOn(platform, port)

\* the lookup command of freePort rejects: it could not be run, or (win32)
\* findstr matched no line and exited 1
FreeRejectsOn(plat, port, failed) ==
    failed \/ (plat = "win32" /\ FindstrFails(port))

\* the lookup command completes: exec rejects (the command could not be
\* run, or findstr found no line and exited 1), or its output is parsed
FreeLookup ==
    /\ fpc = "lookup"
    /\ flisteners' = Listeners(fport)
    /\ \E failed \in BOOLEAN :
          IF FreeRejectsOn(platform, fport, failed)
          THEN /\ fpc' = FreeCatch.pc
               /\ fret' = FreeCatch.ret
               /\ fexec' = (IF failed THEN "error" ELSE "exit1")
               /\ UNCHANGED <<killVars, finvoked>>
          ELSE LET targets == FreeTargets(fport)
               IN /\ fexec' = "ok"
                  /\ IF targets = <<>>
                     THEN /\ fpc' = "done"
                          /\ fret' = TRUE
                          /\ UNCHANGED <<killVars, finvoked>>
                     ELSE /\ fpc' = "kill"
                          /\ CallKill("freePort", targets[1].pid)
                          /\ finvoked' = <<targets[1].pid>>
                          /\ UNCHANGED fret
    /\ UNCHANGED <<fport, fcalls, fprev, osVars, regVars, calls, sweepVars>>

\* ------------------------------------------------------------ registration
RegPorts == {3002, 8080}
RegPatterns == {"mcp-server", "custom-mcp"}

SeqIncludes(arr, v) == \E i \in 1..Len(arr) : arr[i] = v

\* mutant: the value is pushed without looking
PushAlways(arr, v) == Append(arr, v)

\* if (!arr.includes(v)) arr.push(v)
PushIfAbsent(arr, v) == IF ~SeqIncludes(arr, v) THEN Append(arr, v) ELSE arr

registerMcpPort(port) ==
    /\ UNCHANGED calls
    /\ MCP_PORTS' = PushIfAbsent(MCP_PORTS, port)
    /\ UNCHANGED <<MCP_PROCESS_PATTERNS, osVars, sweepVars, freeVars, killVars>>

\* mutant: the new pattern takes the place of the array's content
registerMcpPatternReplace(pattern) ==
    /\ UNCHANGED calls
    /\ MCP_PROCESS_PATTERNS' =
          IF ~SeqIncludes(MCP_PROCESS_PATTERNS, pattern)
          THEN <<pattern>>
          ELSE MCP_PROCESS_PATTERNS
    /\ UNCHANGED <<MCP_PORTS, osVars, sweepVars, freeVars, killVars>>

registerMcpPattern(pattern) ==
    /\ UNCHANGED calls
    /\ MCP_PROCESS_PATTERNS' = PushIfAbsent(MCP_PROCESS_PATTERNS, pattern)
    /\ UNCHANGED <<MCP_PORTS, osVars, sweepVars, freeVars, killVars>>

\* ------------------------------------------------------ the operating system
\* a process exits (on its own, or of a signal it received earlier)
OsExit(p) ==
    /\ proc[p].live
    /\ proc' = [proc EXCEPT ![p] = NoProc]
    /\ UNCHANGED <<platform, spawns, calls, regVars, sweepVars, freeVars,
                   killVars>>

\* a new process starts and is given a free pid
OsSpawn(p, k) ==
    /\ ~proc[p].live
    /\ spawns < MaxSpawns
    /\ proc' = [proc EXCEPT ![p] = k]
    /\ spawns' = spawns + 1
    /\ UNCHANGED <<platform, calls, regVars, sweepVars, freeVars, killVars>>

\* ------------------------------------------------------------ specification
Init ==
    /\ platform \in {"posix", "win32"}
    /\ proc \in [Pids -> ProcKinds \cup {NoProc}]
    /\ spawns = 0
    /\ calls = 0
    /\ MCP_PROCESS_PATTERNS = <<"robloxstudio-mcp", "mcp-remote", "mcp-server">>
    /\ MCP_PORTS = <<3002>>
    /\ spc = "idle"
    /\ cursor = 1
    /\ processesByName = <<>>
    /\ processesByPort = <<>>
    /\ allProcesses = <<>>
    /\ killed = 0
    /\ sret = 0
    /\ invoked = <<>>
    /\ outcomes = <<>>
    /\ prevFound = {}
    /\ startPatterns = <<>>
    /\ startPorts = <<>>
    /\ namesProbed = <<>>
    /\ portsProbed = <<>>
    /\ lastFailed = FALSE
    /\ fpc = "idle"
    /\ fport = 3002
    /\ fret = FALSE
    /\ fcalls = 0
    /\ fexec = "pending"
    /\ flisteners = {}
    /\ finvoked = <<>>
    /\ fprev = NoCall
    /\ kpc = [t \in Callers |-> "idle"]
    /\ kpid = [t \in Callers |-> 1]
    /\ klog = [t \in Callers |-> <<>>]
    /\ kres = [t \in Callers |-> NoResult]

Next ==
    \/ SweepStart
    \/ SweepFindByName
    \/ SweepFindByPort
    \/ SweepNothingFound
    \/ SweepDeduplicate
    \/ \E t \in Callers : KillTerm(t)
    \/ \E t \in Callers : KillProbe(t)
    \/ \E t \in Callers : KillForce(t)
    \/ \E t \in Callers : KillVerify(t)
    \/ \E port \in FreePortArgs : FreeStart(port)
    \/ FreeLookup
    \/ \E port \in RegPorts : registerMcpPort(port)
    \/ \E pattern \in RegPatterns : registerMcpPattern(pattern)
    \/ \E p \in Pids : OsExit(p)
    \/ \E p \in Pids, k \in SpawnKinds : OsSpawn(p, k)

Spec == Init /\ [][Next]_vars

\* The steps of the sweep's termination loop: a system call of the running
\* program, or the expiry of one of its timers.  The event loop runs each
\* of them once it is due.
SweepKillStep ==
    \/ KillTerm("sweep")
    \/ KillProbe("sweep")
    \/ KillForce("sweep")
    \/ KillVerify("sweep")

FairSpec == Spec /\ WF_vars(SweepKillStep)

\* ------------------------------------------- a machine with more on it
\* The host itself (this program: it has a pid like any process, and it
\* holds the client end of its connection to the MCP server on 3002), and
\* a neighbour that listens on a port whose number starts with 3002.
HostProc ==
    [cmd |-> <<"bun", "agent-smith">>,
     socks |-> {[lport |-> 49152, rport |-> 3002, state |-> "ESTABLISHED"]},
     owned |-> TRUE, child |-> FALSE, live |-> TRUE]

Neighbour ==
    [cmd |-> <<"node", "vite">>, socks |-> {Listen(30020)},
     owned |-> TRUE, child |-> FALSE, live |-> TRUE]

WideKinds == ProcKinds \cup {HostProc, Neighbour}

\* process.pid, when the host is among the processes looked at
HostPids == {p \in Pids : proc[p] = HostProc}

WideInit ==
    /\ platform \in {"posix", "win32"}
    /\ proc \in [Pids -> WideKinds \cup {NoProc}]
    /\ Cardinality(HostPids) <= 1
    /\ spawns = 0
    /\ calls = 0
    /\ MCP_PROCESS_PATTERNS = <<"robloxstudio-mcp", "mcp-remote", "mcp-server">>
    /\ MCP_PORTS = <<3002>>
    /\ spc = "idle"
    /\ cursor = 1
    /\ processesByName = <<>>
    /\ processesByPort = <<>>
    /\ allProcesses = <<>>
    /\ killed = 0
    /\ sret = 0
    /\ invoked = <<>>
    /\ outcomes = <<>>
    /\ prevFound = {}
    /\ startPatterns = <<>>
    /\ startPorts = <<>>
    /\ namesProbed = <<>>
    /\ portsProbed = <<>>
    /\ lastFailed = FALSE
    /\ fpc = "idle"
    /\ fport = 3002
    /\ fret = FALSE
    /\ fcalls = 0
    /\ fexec = "pending"
    /\ flisteners = {}
    /\ finvoked = <<>>
    /\ fprev = NoCall
    /\ kpc = [t \in Callers |-> "idle"]
    /\ kpid = [t \in Callers |-> 1]
    /\ klog = [t \in Callers |-> <<>>]
    /\ kres = [t \in Callers |-> NoResult]

\* the program runs for as long as the host does: the host does not exit
\* of itself
WideNext ==
    \/ SweepStart
    \/ SweepFindByName
    \/ SweepFindByPort
    \/ SweepNothingFound
    \/ SweepDeduplicate
    \/ \E t \in Callers : KillTerm(t)
    \/ \E t \in Callers : KillProbe(t)
    \/ \E t \in Callers : KillForce(t)
    \/ \E t \in Callers : KillVerify(t)
    \/ \E port \in FreePortArgs : FreeStart(port)
    \/ FreeLookup
    \/ \E port \in RegPorts : registerMcpPort(port)
    \/ \E pattern \in RegPatterns : registerMcpPattern(pattern)
    \/ \E p \in Pids \ HostPids : OsExit(p)
    \/ \E p \in Pids, k \in SpawnKinds : OsSpawn(p, k)

WideSpec == WideInit /\ [][WideNext]_vars

\* ------------------------------------------- one use after the other
\* a later call of cleanupOrphanedMcpProcesses, once the one before it has
\* returned or thrown
SweepAgain ==
    /\ spc \in {"done", "thrown"}
    /\ calls < MaxSweeps
    /\ SweepBegin

\* the program calls the sweep up to MaxSweeps times in a row (startup,
\* then session switches), or uses freePort; ports may be registered, the
\* patterns are the defaults
SeriesNext ==
    \/ SweepStart
    \/ SweepAgain
    \/ SweepFindByName
    \/ SweepFindByPort
    \/ SweepNothingFound
    \/ SweepDeduplicate
    \/ \E t \in Callers : KillTerm(t)
    \/ \E t \in Callers : KillProbe(t)
    \/ \E t \in Callers : KillForce(t)
    \/ \E t \in Callers : KillVerify(t)
    \/ \E port \in FreePortArgs : FreeStart(port)
    \/ FreeLookup
    \/ \E port \in RegPorts : registerMcpPort(port)
    \/ \E p \in Pids : OsExit(p)
    \/ \E p \in Pids, k \in SpawnKinds : OsSpawn(p, k)

SeriesSpec == Init /\ [][SeriesNext]_vars

\* --------------------------------------------- two uses side by side
\* freePort is called, once, while a call of the sweep is suspended at one
\* of its awaits
FreeBeside(port) ==
    /\ spc \in {"byName", "byPort", "kill"}
    /\ fcalls = 0
    /\ FreeBegin(port)
    /\ UNCHANGED calls

OverlapNext ==
    \/ SweepStart
    \/ SweepFindByName
    \/ SweepFindByPort
    \/ SweepNothingFound
    \/ SweepDeduplicate
    \/ \E t \in Callers : KillTerm(t)
    \/ \E t \in Callers : KillProbe(t)
    \/ \E t \in Callers : KillForce(t)
    \/ \E t \in Callers : KillVerify(t)
    \/ \E port \in FreePortArgs : FreeBeside(port)
    \/ FreeLookup
    \/ \E port \in RegPorts : registerMcpPort(port)
    \/ \E p \in Pids : OsExit(p)
    \/ \E p \in Pids, k \in SpawnKinds : OsSpawn(p, k)

OverlapSpec == Init /\ [][OverlapNext]_vars

\* ------------------------------------------------------------------ claims
\* the log of caller t is that of a call of killProcess that has returned
Completed(t) == kpc[t] \in {"idle", "call"} /\ klog[t] # <<>>

\* event number i of the log of caller t is the system call op with result res
LogHas(t, i, op, res) ==
    /\ Len(klog[t]) >= i
    /\ klog[t][i].op = op
    /\ klog[t][i].res = res

LogOps(t) == {klog[t][i].op : i \in 1..Len(klog[t])}

\* C1: when the graceful SIGTERM reports ESRCH, killProcess returns
\* {success: true, reason: already_dead} at once: the SIGTERM is the only
\* thing the call did (no wait, no probe, no SIGKILL).
C1_AlreadyDead ==
    \A t \in Callers :
        LogHas(t, 1, "SIGTERM", "ESRCH") =>
            /\ Completed(t)
            /\ kres[t] = Returned(TRUE, "already_dead")
            /\ Len(klog[t]) = 1

C1_Witness ==
    \E t \in Callers :
        /\ LogHas(t, 1, "SIGTERM", "ESRCH")
        /\ Completed(t)
        /\ kres[t].reason = "already_dead"

\* C2: when SIGTERM is accepted and the first probe, after the 500 ms wait,
\* finds the process gone, killProcess returns {success: true, reason:
\* killed} and no SIGKILL was sent in that call.
C2_GracefulExit ==
    \A t \in Callers :
        (/\ LogHas(t, 1, "SIGTERM", "ok")
         /\ LogHas(t, 3, "probe", "ESRCH")) =>
            /\ klog[t][2] = Wait(klog[t][1].pid, 500)
            /\ Completed(t)
            /\ kres[t] = Returned(TRUE, "killed")
            /\ "SIGKILL" \notin LogOps(t)
            /\ Len(klog[t]) = 3

C2_Witness ==
    \E t \in Callers :
        /\ LogHas(t, 1, "SIGTERM", "ok")
        /\ LogHas(t, 3, "probe", "ESRCH")
        /\ Completed(t)
        /\ kres[t].reason = "killed"

\* C3: when the process is alive at the first probe, SIGKILL is sent and the
\* second probe, after the 200 ms wait, finds it gone, killProcess returns
\* {success: true, reason: killed}.
C3_ForcedExit ==
    \A t \in Callers :
        (/\ LogHas(t, 3, "probe", "ok")
         /\ LogHas(t, 4, "SIGKILL", "ok")
         /\ LogHas(t, 6, "probe", "ESRCH")) =>
            /\ klog[t][5] = Wait(klog[t][1].pid, 200)
            /\ Completed(t)
            /\ kres[t] = Returned(TRUE, "killed")

C3_Witness ==
    \E t \in Callers :
        /\ LogHas(t, 3, "probe", "ok")
        /\ LogHas(t, 4, "SIGKILL", "ok")
        /\ LogHas(t, 6, "probe", "ESRCH")
        /\ Completed(t)
        /\ kres[t].success

\* C4: when the process is still alive at the second probe, killProcess
\* returns {success: false, reason: error}; the outcome is a returned
\* value, the call does not reject.
C4_StillAlive ==
    \A t \in Callers :
        LogHas(t, 6, "probe", "ok") =>
            /\ LogHas(t, 1, "SIGTERM", "ok")
            /\ LogHas(t, 3, "probe", "ok")
            /\ LogHas(t, 4, "SIGKILL", "ok")
            /\ Completed(t)
            /\ kres[t] = Returned(FALSE, "error")
            /\ ~kres[t].rejected

C4_Witness ==
    \E t \in Callers :
        /\ LogHas(t, 6, "probe", "ok")
        /\ Completed(t)
        /\ kres[t].reason = "error"

\* C5: when the graceful SIGTERM is rejected with EPERM, killProcess returns
\* {success: false, reason: permission_denied} and does nothing else: no
\* wait, no probe, no SIGKILL.
C5_PermissionDenied ==
    \A t \in Callers :
        LogHas(t, 1, "SIGTERM", "EPERM") =>
            /\ Completed(t)
            /\ kres[t] = Returned(FALSE, "permission_denied")
            /\ Len(klog[t]) = 1

C5_Witness ==
    \E t \in Callers :
        /\ LogHas(t, 1, "SIGTERM", "EPERM")
        /\ Completed(t)
        /\ kres[t].reason = "permission_denied"

\* everything discovery produced, pattern matches first
RawHandles == processesByName \o processesByPort

SuccessCount == Cardinality({k \in 1..Len(outcomes) : outcomes[k].success})

\* C6: the sweep returns the number of entries of the Map whose KillResult
\* has success = true, already_dead outcomes included.
C6_ReturnsSuccessCount ==
    spc = "done" =>
        /\ Len(outcomes) = Len(allProcesses)
        /\ sret = SuccessCount
        /\ sret = Cardinality({k \in 1..Len(outcomes) :
                       outcomes[k].reason \in {"killed", "already_dead"}})

C6_Witness ==
    /\ spc = "done"
    /\ Len(allProcesses) = 2
    /\ sret = 2
    /\ \E k \in 1..2 : outcomes[k].reason = "already_dead"
    /\ \E k \in 1..2 : outcomes[k].reason = "killed"

\* C7: once the Map is built it holds exactly one entry for every pid that
\* occurs in the pattern matches or the port matches: no pid is missing and
\* no pid occurs twice.
C7_OneEntryPerPid ==
    spc \in {"kill", "done", "thrown"} =>
        /\ PidsOf(allProcesses) = PidsOf(RawHandles)
        /\ \A i, j \in 1..Len(allProcesses) :
              allProcesses[i].pid = allProcesses[j].pid => i = j

C7_Witness ==
    /\ spc \in {"kill", "done"}
    /\ Len(allProcesses) = 2
    /\ Len(processesByName) >= 2
    /\ Len(processesByPort) >= 1
    /\ Len(RawHandles) > Len(allProcesses)

Invocations(p) == Cardinality({k \in 1..Len(invoked) : invoked[k] = p})

Contribution(p) ==
    Cardinality({k \in 1..Len(outcomes) : invoked[k] = p /\ outcomes[k].success})

Occurrences(p) ==
    Cardinality({i \in 1..Len(RawHandles) : RawHandles[i].pid = p})

\* C8: a process that discovery matched more than once (a pattern and a
\* port, or several patterns) is passed to killProcess at most once in the
\* sweep and adds at most 1 to the value returned.
C8_KilledOnce ==
    /\ \A p \in PidsOf(RawHandles) :
          Occurrences(p) > 1 => Invocations(p) <= 1 /\ Contribution(p) <= 1
    /\ spc = "done" => sret <= Cardinality(PidsOf(RawHandles))

C8_Witness ==
    /\ spc = "done"
    /\ \E p \in PidsOf(processesByName) \cap PidsOf(processesByPort) :
          /\ Invocations(p) = 1
          /\ Contribution(p) = 1
          /\ PidsOf(RawHandles) = {p}
    /\ sret = 1

\* C9: neither cleanupOrphanedMcpProcesses nor freePort rejects, and no
\* call of killProcess does, whatever the commands and the signals report.
C9_NeverThrows ==
    /\ spc # "thrown"
    /\ fpc # "thrown"
    /\ \A t \in Callers : ~kres[t].rejected

C9_Witness ==
    /\ spc = "done"
    /\ sret = 0
    /\ Len(outcomes) >= 1
    /\ LogHas("sweep", 1, "SIGTERM", "EOTHER")
    /\ kres["sweep"] = Returned(FALSE, "error")

InvokedAll ==
    /\ Len(allProcesses) > 0
    /\ invoked = [k \in 1..Len(allProcesses) |-> allProcesses[k].pid]

\* C10: once the Map is built, killProcess is eventually called for every
\* entry of it, in order, also for the entries that follow one whose
\* termination failed (permission_denied or error).
C10_SweepContinues == (spc = "kill") ~> InvokedAll

C10_Witness ==
    /\ spc = "done"
    /\ Len(allProcesses) >= 2
    /\ ~outcomes[1].success
    /\ InvokedAll

\* C11: a call of freePort whose lookup command ran and met no listener on
\* the port (no process was listening when it ran) returns true and calls
\* killProcess for nobody, on POSIX and on win32 alike.
C11_NoListenerTrue ==
    (fpc = "done" /\ fexec \in {"ok", "exit1"} /\ flisteners = {}) =>
        /\ fret = TRUE
        /\ finvoked = <<>>

\* C12: when the lookup of freePort found a listener, the value returned is
\* the success of killProcess on it: true only for success = true, false
\* for permission_denied and for error.
C12_ReturnsWhetherFreed ==
    (fpc = "done" /\ finvoked # <<>>) =>
        /\ ~kres["freePort"].rejected
        /\ fret = kres["freePort"].success

\* C13: freePort returns false only when a listener was found and
\* killProcess on it did not succeed; a lookup command that fails or exits
\* non-zero never makes it return false.
C13_FalseOnlyOnFailedKill ==
    (fpc = "done" /\ fret = FALSE) =>
        /\ fexec = "ok"
        /\ finvoked # <<>>
        /\ ~kres["freePort"].success

\* C14: with one process P listening on the port, freePort calls killProcess
\* on P and returns true; and the call of freePort on the same port that
\* follows one that terminated P, with nobody listening on the port since,
\* returns true and calls killProcess for nobody.
C14_SecondCallTrue ==
    /\ (fpc = "done" /\ fexec = "ok" /\ Cardinality(flisteners) = 1) =>
           /\ fret = TRUE
           /\ \A p \in flisteners : finvoked = <<p>>
    /\ (/\ fpc = "done"
        /\ fexec \in {"ok", "exit1"}
        /\ flisteners = {}
        /\ fprev.port = fport
        /\ fprev.exec = "ok"
        /\ Cardinality(fprev.listeners) = 1
        /\ fprev.res.success
        /\ fprev.ret = TRUE) =>
           /\ fret = TRUE
           /\ finvoked = <<>>

\* C15: the terminations of a sweep are strictly sequential.  killProcess is
\* running for the sweep only inside the loop over the Map; when it is
\* called for an entry, the KillResult of every earlier entry has been
\* determined; every signal and probe of the running call goes to the
\* entry at hand; so at most one termination is in progress.
C15_Sequential ==
    /\ kpc["sweep"] # "idle" => spc = "kill"
    /\ spc = "kill" =>
          /\ Len(invoked) = Len(outcomes) + 1
          /\ cursor = Len(invoked)
          /\ invoked[cursor] = allProcesses[cursor].pid
          /\ kpid["sweep"] = invoked[cursor]
    /\ kpc["sweep"] \in {"wait500", "sigkill", "wait200"} =>
          \A i \in 1..Len(klog["sweep"]) :
              klog["sweep"][i].pid = kpid["sweep"]
    /\ spc = "done" => Len(invoked) = Len(outcomes)

C15_Witness ==
    /\ spc = "kill"
    /\ Len(allProcesses) = 2
    /\ Len(invoked) = 2
    /\ Len(outcomes) = 1
    /\ kpc["sweep"] = "wait500"
    /\ klog["sweep"] = <<Sys("SIGTERM", allProcesses[2].pid, "ok")>>

\* the values a sequence of discovery commands was run for
ValuesOf(probes) == [k \in 1..Len(probes) |-> probes[k].value]

IsPrefix(a, b) == Len(a) <= Len(b) /\ \A k \in 1..Len(a) : a[k] = b[k]

\* both discovery loops of the sweep are over
DiscoveryDone == spc \in {"kill", "done", "thrown"}

\* C16: a sweep probes the watched patterns and ports as they were when it
\* started: whatever is registered while it is suspended, the commands it
\* runs are for the members of the arrays at its start, in order, and once
\* discovery is over for exactly those.
C16_ReadAtStart ==
    /\ IsPrefix(ValuesOf(namesProbed), startPatterns)
    /\ IsPrefix(ValuesOf(portsProbed), startPorts)
    /\ DiscoveryDone =>
          /\ ValuesOf(namesProbed) = startPatterns
          /\ ValuesOf(portsProbed) = startPorts

NoDup(arr) == \A i, j \in 1..Len(arr) : arr[i] = arr[j] => i = j

\* C17: registration is idempotent.  In every reachable state, registering
\* a value the array already includes returns the array as it is,
\* registering any value twice gives what registering it once gives, no
\* array holds a value twice, and a sweep runs no command twice for the
\* same value.
C17_Idempotent ==
    /\ NoDup(MCP_PORTS)
    /\ NoDup(MCP_PROCESS_PATTERNS)
    /\ \A port \in RegPorts :
          /\ SeqIncludes(MCP_PORTS, port) =>
                 PushIfAbsent(MCP_PORTS, port) = MCP_PORTS
          /\ PushIfAbsent(PushIfAbsent(MCP_PORTS, port), port) =
                 PushIfAbsent(MCP_PORTS, port)
    /\ \A pattern \in RegPatterns :
          /\ SeqIncludes(MCP_PROCESS_PATTERNS, pattern) =>
                 PushIfAbsent(MCP_PROCESS_PATTERNS, pattern) =
                     MCP_PROCESS_PATTERNS
          /\ PushIfAbsent(PushIfAbsent(MCP_PROCESS_PATTERNS, pattern), pattern) =
                 PushIfAbsent(MCP_PROCESS_PATTERNS, pattern)
    /\ NoDup(ValuesOf(namesProbed))
    /\ NoDup(ValuesOf(portsProbed))

C17_Witness ==
    /\ spc = "done"
    /\ MCP_PORTS = <<3002, 8080>>
    /\ startPorts = MCP_PORTS
    /\ ValuesOf(portsProbed) = <<3002, 8080>>
    /\ SeqIncludes(startPatterns, "custom-mcp")
    /\ Cardinality({k \in 1..Len(namesProbed) :
                       namesProbed[k].value = "custom-mcp"}) = 1

DefaultsWatched ==
    /\ IsPrefix(<<"robloxstudio-mcp", "mcp-remote", "mcp-server">>,
                MCP_PROCESS_PATTERNS)
    /\ IsPrefix(<<3002>>, MCP_PORTS)

\* a step keeps every member of both arrays, at its place
GrowOnly ==
    /\ IsPrefix(MCP_PROCESS_PATTERNS, MCP_PROCESS_PATTERNS')
    /\ IsPrefix(MCP_PORTS, MCP_PORTS')

\* a registration call leaves its value in the array
RegistrationAdds ==
    /\ \A port \in RegPorts :
          registerMcpPort(port) => SeqIncludes(MCP_PORTS', port)
    /\ \A pattern \in RegPatterns :
          registerMcpPattern(pattern) =>
              SeqIncludes(MCP_PROCESS_PATTERNS', pattern)

\* once discovery is over, a command was run for every value that was in
\* the arrays when the sweep started
SweepProbesWatched ==
    DiscoveryDone =>
        /\ \A k \in 1..Len(startPatterns) :
              SeqIncludes(ValuesOf(namesProbed), startPatterns[k])
        /\ \A k \in 1..Len(startPorts) :
              SeqIncludes(ValuesOf(portsProbed), startPorts[k])

\* C18: the watched arrays are append-only.  They start with the defaults
\* and keep them; no step of a sweep, of freePort or of a registration
\* removes or moves a member; a registration leaves its value in the
\* array; and a sweep probes every value that was in the arrays when it
\* started, so every value registered before.
C18_AppendOnly ==
    /\ DefaultsWatched
    /\ [][/\ GrowOnly
          /\ RegistrationAdds
          /\ DefaultsWatched'
          /\ SweepProbesWatched']_vars

C18_Witness ==
    /\ spc = "done"
    /\ startPorts = <<3002, 8080>>
    /\ startPatterns =
          <<"robloxstudio-mcp", "mcp-remote", "mcp-server", "custom-mcp">>
    /\ SeqIncludes(ValuesOf(portsProbed), 8080)
    /\ SeqIncludes(ValuesOf(namesProbed), "custom-mcp")
    /\ SeqIncludes(ValuesOf(namesProbed), "robloxstudio-mcp")

RECURSIVE Contributions(_)
\* the handles a sequence of discovery commands pushed, in order
Contributions(probes) ==
    IF probes = <<>> THEN <<>>
    ELSE Head(probes).found \o Contributions(Tail(probes))

\* the handles pushed by the latest discovery command of the sweep
LastFound ==
    IF portsProbed # <<>> THEN portsProbed[Len(portsProbed)].found
    ELSE IF namesProbed # <<>> THEN namesProbed[Len(namesProbed)].found
    ELSE <<>>

\* C19: a discovery command that is rejected contributes no handle and
\* stops nothing: the results are what the commands one by one pushed, a
\* command is still run for every watched pattern and port, and when the
\* sweep returns killProcess has been called for every process the other
\* commands found.
C19_FailureIsLocal ==
    /\ lastFailed => LastFound = <<>>
    /\ processesByName = Contributions(namesProbed)
    /\ processesByPort = Contributions(portsProbed)
    /\ SweepProbesWatched
    /\ spc = "done" =>
          {invoked[k] : k \in 1..Len(invoked)} =
              PidsOf(Contributions(namesProbed) \o Contributions(portsProbed))

C19_Witness ==
    /\ spc = "done"
    /\ platform = "posix"
    /\ lastFailed
    /\ Listeners(3002) # {}
    /\ ValuesOf(portsProbed) = <<3002>>
    /\ Len(namesProbed) = Len(startPatterns)
    /\ Contributions(namesProbed) # <<>>
    /\ Len(invoked) >= 1
    /\ outcomes[1].success

\* C20: a sweep signals orphans only: no process that is a live child the
\* host holds is the receiver of a SIGTERM or a SIGKILL of the sweep.
C20_OnlyOrphans ==
    \A i \in 1..Len(klog["sweep"]) :
        LET e == klog["sweep"][i]
        IN (e.op \in {"SIGTERM", "SIGKILL"} /\ e.res = "ok") =>
              ~(proc[e.pid].live /\ proc[e.pid].child)

\* how often the log of caller t holds the system call op
OpCount(t, op) ==
    Cardinality({i \in 1..Len(klog[t]) : klog[t][i].op = op})

WaitCount(t, ms) ==
    Cardinality({i \in 1..Len(klog[t]) :
                    klog[t][i].op = "wait" /\ klog[t][i].ms = ms})

\* a call of killProcess makes at most one SIGTERM, one SIGKILL, two probes,
\* one wait of 500 ms and one of 200 ms, and no other wait
KillBounded(t) ==
    /\ OpCount(t, "SIGTERM") <= 1
    /\ OpCount(t, "SIGKILL") <= 1
    /\ OpCount(t, "probe") <= 2
    /\ WaitCount(t, 500) <= 1
    /\ WaitCount(t, 200) <= 1
    /\ OpCount(t, "wait") = WaitCount(t, 500) + WaitCount(t, 200)

\* C21: every call of killProcess stays within one SIGTERM, one SIGKILL, two
\* probes and the two grace waits, and a sweep that has built its Map of
\* handles eventually returns.
C21_SweepCompletes ==
    /\ [](\A t \in Callers : KillBounded(t))
    /\ (spc = "kill") ~> (spc = "done")

C21_Witness ==
    /\ spc = "done"
    /\ Len(allProcesses) = 2
    /\ Len(outcomes) = 2
    /\ Len(klog["sweep"]) = 6
    /\ OpCount("sweep", "probe") = 2
    /\ OpCount("sweep", "wait") = 2

\* the last event of the log of caller t
LastEvent(t) == klog[t][Len(klog[t])]

\* C23: killProcess returns {success: true, reason: killed} only when it
\* has been told that there is no such process: the call that decided the
\* result ended with ESRCH, never with another error of the SIGKILL or of
\* a probe.
C23_SuccessOnlyConfirmed ==
    \A t \in Callers :
        (Completed(t) /\ kres[t] = Returned(TRUE, "killed")) =>
            LastEvent(t).res = "ESRCH"

\* C24: the escalation order of a call of killProcess.  A SIGKILL is the
\* fourth event, after a SIGTERM that was accepted, the 500 ms wait and a
\* probe that found the process alive; a second probe is the sixth event,
\* after a SIGKILL that was accepted and the 200 ms wait.
C24_EscalationOrder ==
    \A t \in Callers : \A i \in 1..Len(klog[t]) :
        /\ klog[t][i].op = "SIGTERM" => i = 1
        /\ klog[t][i].op = "SIGKILL" =>
              /\ i = 4
              /\ LogHas(t, 1, "SIGTERM", "ok")
              /\ klog[t][2] = Wait(klog[t][1].pid, 500)
              /\ LogHas(t, 3, "probe", "ok")
        /\ (klog[t][i].op = "probe" /\ i > 3) =>
              /\ i = 6
              /\ LogHas(t, 4, "SIGKILL", "ok")
              /\ klog[t][5] = Wait(klog[t][1].pid, 200)
        /\ klog[t][i].op = "probe" => i \in {3, 6}
        /\ klog[t][i].pid = klog[t][1].pid

C24_Witness ==
    \E t \in Callers :
        /\ Len(klog[t]) = 6
        /\ LogHas(t, 4, "SIGKILL", "ok")
        /\ LogHas(t, 6, "probe", "ESRCH")
        /\ Completed(t)

\* the index of the first raw handle of pid p
FirstIndex(p) ==
    CHOOSE i \in 1..Len(RawHandles) :
        /\ RawHandles[i].pid = p
        /\ \A j \in 1..(i - 1) : RawHandles[j].pid # p

\* C25: the Map is filled from the pattern matches first and the port
\* matches second and the first handle of a pid is the one kept, label and
\* port included; its entries, and the calls of killProcess, are in the
\* order of these first occurrences; killProcess is given the pid alone.
C25_FirstOccurrenceWins ==
    spc \in {"kill", "done"} =>
        /\ RawHandles = Contributions(namesProbed) \o Contributions(portsProbed)
        /\ \A k \in 1..Len(allProcesses) :
              allProcesses[k] = RawHandles[FirstIndex(allProcesses[k].pid)]
        /\ \A k, m \in 1..Len(allProcesses) :
              k < m => FirstIndex(allProcesses[k].pid) <
                           FirstIndex(allProcesses[m].pid)
        /\ IsPrefix(invoked, [k \in 1..Len(allProcesses) |->
                                  allProcesses[k].pid])

C25_Witness ==
    /\ spc = "done"
    /\ Len(allProcesses) = 2
    /\ \E p \in PidsOf(processesByName) \cap PidsOf(processesByPort) :
          /\ allProcesses[2].pid = p
          /\ allProcesses[2].port = 0
          /\ allProcesses[2].name = "robloxstudio-mcp"
    /\ invoked = <<allProcesses[1].pid, allProcesses[2].pid>>

\* what a call of freePort does on a platform with the processes as they
\* are: the pid killProcess is called with (0 for none) and, when the call
\* returns without calling it, the value returned
FreeLookupOn(plat, port, failed) ==
    IF FreeRejectsOn(plat, port, failed)
    THEN [pid |-> 0, ret |-> FreeCatch.ret]
    ELSE IF FreeTargetsOn(plat, port) = <<>> THEN [pid |-> 0, ret |-> TRUE]
    ELSE [pid |-> FreeTargetsOn(plat, port)[1].pid, ret |-> TRUE]

\* C22: with the same processes, sockets and the same outcome of running
\* the lookup tool, the POSIX branch and the win32 branch of
\* findMcpProcesses, findProcessesOnMcpPorts and freePort yield the same
\* pids and the same return value.
C22_PlatformsAgree ==
    \A failed \in BOOLEAN :
        /\ \A pattern \in RegPatterns \cup {"mcp-remote", "robloxstudio-mcp"} :
              PidsOf(FindByPatternOn("posix", pattern, failed)) =
                  PidsOf(FindByPatternOn("win32", pattern, failed))
        /\ \A port \in RegPorts :
              PidsOf(FindByPortOn("posix", port, failed)) =
                  PidsOf(FindByPortOn("win32", port, failed))
        /\ (fpc = "lookup") =>
              FreeLookupOn("posix", fport, failed) =
                  FreeLookupOn("win32", fport, failed)

\* the process at pid p is one the watch lists name: its command line
\* contains a watched pattern, or it listens on a watched port
Watched(p) ==
    /\ proc[p].live
    /\ \/ \E i \in 1..Len(MCP_PROCESS_PATTERNS) :
             CmdMatches(proc[p].cmd, MCP_PROCESS_PATTERNS[i])
       \/ \E j \in 1..Len(MCP_PORTS) : p \in Listeners(MCP_PORTS[j])

\* the step sends a signal for the sweep, and the process at the pid takes it
SweepSignals ==
    /\ klog'["sweep"] # klog["sweep"]
    /\ klog'["sweep"][Len(klog'["sweep"])].op \in {"SIGTERM", "SIGKILL"}
    /\ klog'["sweep"][Len(klog'["sweep"])].res = "ok"

\* C28: every SIGTERM and SIGKILL the sweep delivers goes to a process
\* that matches a watched pattern or listens on a watched port at the
\* moment the signal is sent, also when the pid found at discovery has been
\* given to another process since.
C28_SignalsOnlyWatched ==
    [][SweepSignals => Watched(kpid["sweep"])]_vars

\* C26: what port discovery yields for a port is a process that listens on
\* exactly that port: the command the sweep is about to run for a watched
\* port returns listeners of that port only, and the pid freePort calls
\* killProcess with listened on its port when the lookup ran.
C26_OnlyListeners ==
    /\ (spc = "byPort") =>
          PidsOf(FindByPort(MCP_PORTS[cursor], FALSE))
              \subseteq Listeners(MCP_PORTS[cursor])
    /\ (fpc \in {"kill", "done"}) =>
          \A i \in 1..Len(finvoked) : finvoked[i] \in flisteners

\* C29: no SIGTERM and no SIGKILL of a sweep or of freePort is delivered to
\* the host's own process.
C29_HostSurvives ==
    \A t \in Callers : \A i \in 1..Len(klog[t]) :
        (klog[t][i].op \in {"SIGTERM", "SIGKILL"} /\ klog[t][i].res = "ok")
            => klog[t][i].pid \notin HostPids

\* the pids the commands of the running (or last) sweep have printed
FoundNow == PidsOf(Contributions(namesProbed) \o Contributions(portsProbed))

\* C27: every pid a sweep calls killProcess with, and so every pid it
\* signals, was found by the commands of that same call; a pid that only
\* an earlier sweep found is not among them.  Likewise the pid freePort
\* calls killProcess with comes from the lookup of that same call.
C27_NoHandleRetained ==
    /\ [](/\ \A i \in 1..Len(invoked) : invoked[i] \in FoundNow
          /\ (spc = "kill") => kpid["sweep"] \in FoundNow
          /\ \A p \in prevFound \ FoundNow :
                \A i \in 1..Len(invoked) : invoked[i] # p)
    /\ [][finvoked' # finvoked =>
             \A i \in 1..Len(finvoked') :
                 finvoked'[i] \in PidsOf(FreeTargets(fport))]_vars

C27_Witness ==
    /\ calls = 2
    /\ spc = "done"
    /\ invoked # <<>>
    /\ \E p \in prevFound : p \notin FoundNow

Other(t) == IF t = "sweep" THEN "freePort" ELSE "sweep"

\* the step is the return of a call of killProcess for caller t
KillReturns(t) == kpc[t] \notin {"idle", "call"} /\ kpc'[t] \in {"idle", "call"}

\* the other invocation has delivered a signal to the pid of caller t
OtherSignalled(t) ==
    \E i \in 1..Len(klog[Other(t)]) :
        /\ klog[Other(t)][i].pid = kpid[t]
        /\ klog[Other(t)][i].op \in {"SIGTERM", "SIGKILL"}
        /\ klog[Other(t)][i].res = "ok"

\* the process that was found at the pid of caller t is no more: the pid
\* is free, or a process started since holds it
TargetGone(t) == proc[kpid[t]] \notin ProcKinds

\* C30: when a sweep and a call of freePort overlap and both call
\* killProcess for the same pid, neither call of killProcess throws, and a
\* call that returns when the process has died after the signal of the
\* other returns success (killed or already_dead), never permission_denied
\* or error.
C30_OverlapSafe ==
    /\ [](spc # "thrown" /\ \A t \in Callers : ~kres[t].rejected)
    /\ [][\A t \in Callers :
             (KillReturns(t) /\ OtherSignalled(t) /\ TargetGone(t)) =>
                 kres'[t].success]_vars
====
